---- MODULE Spec2Model ----
(***************************************************************************)
(* legolOS: a cycle-stepped virtual machine (src/src/machines.rs) with one *)
(* register and two instructions, and the screen (src/src/screens.rs) that *)
(* drives the machine and samples its register once per cycle.             *)
(*                                                                         *)
(* The machine is either held by its caller, who calls cycle() directly,   *)
(* or it was moved into a Screen when both were constructed, and then only *)
(* Screen::refresh cycles it.                                              *)
(***************************************************************************)
EXTENDS Integers, Sequences, FiniteSets

\* ------------------------------------------------------------------------
\* Program constants
\* ------------------------------------------------------------------------

SCREEN_WIDTH == 40

SCREEN_HEIGHT == 6

\* ------------------------------------------------------------------------
\* Bounds of the model
\* ------------------------------------------------------------------------

\* Longest freely chosen suffix of a program.
MaxTail == 2

\* Most calls of Screen::refresh on one screen.
MaxRefresh == 2

\* Operands of Addx that occur in the programs explored: one that moves the
\* sprite off the left edge, one that keeps it on the row, one that moves it
\* off the right edge.
Deltas == {-2, 1, 39}

\* ------------------------------------------------------------------------
\* Instructions (enum Instruction) and Option<Instruction>
\* ------------------------------------------------------------------------

Noop == [op |-> "Noop", number |-> 0]

Addx(n) == [op |-> "Addx", number |-> n]

Instruction == {Noop} \cup {Addx(n) : n \in Deltas}

\* Option::None for in_flight
None == [op |-> "None", number |-> 0]

\* ------------------------------------------------------------------------
\* Programs explored: a run of Noop followed by a free suffix.  The run
\* lengths place the suffix at the start of the screen, at the end of the
\* first row, and at the end of the last row (so that programs longer than
\* the screen occur).
\* ------------------------------------------------------------------------

Noops(n) == [i \in 1..n |-> Noop]

PadLens == {0, SCREEN_WIDTH - 3, SCREEN_WIDTH - 2, SCREEN_WIDTH * SCREEN_HEIGHT - 2}

Tails == UNION {[1..n -> Instruction] : n \in 0..MaxTail}

Programs == {Noops(p) \o t : p \in PadLens, t \in Tails}

\* ------------------------------------------------------------------------
\* State
\* ------------------------------------------------------------------------

VARIABLES
    program,        \* VirtualMachine.program: VecDeque<Instruction>
    in_flight,      \* VirtualMachine.in_flight: Option<Instruction>
    register,       \* VirtualMachine.register
    ticks,          \* VirtualMachine.ticks
    sprite_middle,  \* Screen.sprite_middle
    pixels,         \* Screen.pixels, indexed 0 .. SCREEN_WIDTH*SCREEN_HEIGHT-1
    owner,          \* "caller": the caller holds the machine; "screen": a Screen does
    pc,             \* position inside Screen::refresh ("idle": not inside it)
    panicked,       \* "no", or the panic that ended the program
    refreshes,      \* number of calls of Screen::refresh so far
    entry,          \* what the screen and machine were when refresh was last called
    loaded,         \* the program VirtualMachine::new was given
    history,        \* one record per cycle() call that returned
    sampled,        \* the pixel indices light() got past its range test with, in order
    fmt_pc,         \* position inside Display::fmt ("idle": not inside it)
    fmt_i,          \* fmt: number of pixels the for loop has consumed
    column,         \* fmt: let mut column
    out             \* fmt: what has been written to the formatter

vars == <<program, in_flight, register, ticks, sprite_middle, pixels, owner, pc,
          panicked, refreshes, entry, loaded, history, sampled,
          fmt_pc, fmt_i, column, out>>

formatter == <<fmt_pc, fmt_i, column, out>>

machine == <<program, in_flight, register, ticks>>

PixelIndex == 0 .. (SCREEN_WIDTH * SCREEN_HEIGHT - 1)

\* ------------------------------------------------------------------------
\* VirtualMachine
\* ------------------------------------------------------------------------

\* Variant: the in-flight instruction is forgotten in the termination test.
is_executing_ignores_in_flight == program /= <<>>

is_executing == program /= <<>> \/ ~(in_flight = None)

read_register == register

get_ticks == ticks

\* Variant: the operand is assigned to the register instead of added.
execute_assign ==
    LET instruction == in_flight IN
    /\ register' = IF instruction.op = "Addx"
                   THEN instruction.number
                   ELSE register
    /\ in_flight' = None
    /\ UNCHANGED <<program, panicked>>

\* Variant: the completed instruction is left in flight.
execute_no_clear ==
    LET instruction == in_flight IN
    /\ register' = IF instruction.op = "Addx"
                   THEN register + instruction.number
                   ELSE register
    /\ UNCHANGED <<in_flight, program, panicked>>

\* fn execute: complete the in-flight instruction.
execute ==
    LET instruction == in_flight IN
    /\ register' = IF instruction.op = "Addx"
                   THEN register + instruction.number
                   ELSE register
    /\ in_flight' = None
    /\ UNCHANGED <<program, panicked>>

\* Variant: Addx is applied in the cycle that pops it.
schedule_eager ==
    IF program = <<>>
    THEN /\ panicked' = "unwrap on None"
         /\ UNCHANGED <<program, in_flight, register>>
    ELSE LET instruction == Head(program) IN
         /\ program' = Tail(program)
         /\ register' = IF instruction.op = "Addx"
                        THEN register + instruction.number
                        ELSE register
         /\ UNCHANGED <<in_flight, panicked>>

\* Variant: every popped instruction, Noop included, is put in flight.
schedule_all_in_flight ==
    IF program = <<>>
    THEN /\ panicked' = "unwrap on None"
         /\ UNCHANGED <<program, in_flight, register>>
    ELSE LET instruction == Head(program) IN
         /\ program' = Tail(program)
         /\ in_flight' = instruction
         /\ UNCHANGED <<register, panicked>>

\* Variant: an empty pop is ignored instead of unwrapped.
schedule_silent ==
    IF program = <<>>
    THEN UNCHANGED <<program, in_flight, register, panicked>>
    ELSE LET instruction == Head(program) IN
         /\ program' = Tail(program)
         /\ in_flight' = IF instruction.op = "Addx" THEN instruction ELSE in_flight
         /\ UNCHANGED <<register, panicked>>

\* Variant: the instruction is popped from the back of the program.
schedule_pop_back ==
    IF program = <<>>
    THEN /\ panicked' = "unwrap on None"
         /\ UNCHANGED <<program, in_flight, register>>
    ELSE LET instruction == program[Len(program)] IN
         /\ program' = SubSeq(program, 1, Len(program) - 1)
         /\ in_flight' = IF instruction.op = "Addx" THEN instruction ELSE in_flight
         /\ UNCHANGED <<register, panicked>>

\* fn schedule: pop the next instruction; unwrap() of an empty pop panics.
schedule ==
    IF program = <<>>
    THEN /\ panicked' = "unwrap on None"
         /\ UNCHANGED <<program, in_flight, register>>
    ELSE LET instruction == Head(program) IN
         /\ program' = Tail(program)
         /\ in_flight' = IF instruction.op = "Addx" THEN instruction ELSE in_flight
         /\ UNCHANGED <<register, panicked>>

\* Variant: the counter is incremented in the schedule branch only.
cycle_tick_on_schedule ==
    /\ IF in_flight = None THEN schedule ELSE execute
    /\ ticks' = IF panicked' = "no" /\ in_flight = None THEN ticks + 1 ELSE ticks
    /\ history' = IF panicked' = "no"
                  THEN Append(history,
                              [branch |-> IF in_flight = None THEN "schedule" ELSE "execute",
                               instruction |-> IF in_flight /= None THEN in_flight
                                               ELSE IF program /= <<>> THEN Head(program)
                                               ELSE None,
                               pos |-> Len(loaded) - Len(program'),
                               before |-> register,
                               after |-> register'])
                  ELSE history

\* fn cycle: schedule or execute, then count the cycle.  A panic unwinds
\* before the counter is touched.
cycle ==
    /\ IF in_flight = None THEN schedule ELSE execute
    /\ ticks' = IF panicked' = "no" THEN ticks + 1 ELSE ticks
    /\ history' = IF panicked' = "no"
                  THEN Append(history,
                              [branch |-> IF in_flight = None THEN "schedule" ELSE "execute",
                               instruction |-> IF in_flight /= None THEN in_flight
                                               ELSE IF program /= <<>> THEN Head(program)
                                               ELSE None,
                               pos |-> Len(loaded) - Len(program'),
                               before |-> register,
                               after |-> register'])
                  ELSE history

\* ------------------------------------------------------------------------
\* Screen
\* ------------------------------------------------------------------------

\* Variant: the range test lets the index one past the grid through.
light_off_by_one ==
    LET screen_index == get_ticks - 1
        middle == sprite_middle
    IN  IF screen_index > SCREEN_HEIGHT * SCREEN_WIDTH
        THEN UNCHANGED <<pixels, panicked, sampled>>
        ELSE LET row_index == screen_index % SCREEN_WIDTH
                 should_light == \/ row_index = middle
                                 \/ row_index = middle - 1
                                 \/ row_index = middle + 1
                 index == screen_index
             IN  /\ sampled' = Append(sampled, index)
                 /\ IF should_light
                    THEN IF index \in DOMAIN pixels
                         THEN /\ pixels' = [pixels EXCEPT ![index] = "Lit"]
                              /\ UNCHANGED panicked
                         ELSE /\ panicked' = "index out of bounds"
                              /\ UNCHANGED pixels
                    ELSE UNCHANGED <<pixels, panicked>>

\* Variant: the sprite is two pixels wide (its right pixel is missing).
light_narrow ==
    LET screen_index == get_ticks - 1
        middle == sprite_middle
    IN  IF screen_index >= SCREEN_HEIGHT * SCREEN_WIDTH
        THEN UNCHANGED <<pixels, panicked, sampled>>
        ELSE LET row_index == screen_index % SCREEN_WIDTH
                 should_light == \/ row_index = middle
                                 \/ row_index = middle - 1
                 index == screen_index
             IN  /\ sampled' = Append(sampled, index)
                 /\ IF should_light
                    THEN IF index \in DOMAIN pixels
                         THEN /\ pixels' = [pixels EXCEPT ![index] = "Lit"]
                              /\ UNCHANGED panicked
                         ELSE /\ panicked' = "index out of bounds"
                              /\ UNCHANGED pixels
                    ELSE UNCHANGED <<pixels, panicked>>

\* Variant: the pixel is written at its column instead of its index.
light_writes_row_index ==
    LET screen_index == get_ticks - 1
        middle == sprite_middle
    IN  IF screen_index >= SCREEN_HEIGHT * SCREEN_WIDTH
        THEN UNCHANGED <<pixels, panicked, sampled>>
        ELSE LET row_index == screen_index % SCREEN_WIDTH
                 should_light == \/ row_index = middle
                                 \/ row_index = middle - 1
                                 \/ row_index = middle + 1
                 index == row_index
             IN  /\ sampled' = Append(sampled, index)
                 /\ IF should_light
                    THEN IF index \in DOMAIN pixels
                         THEN /\ pixels' = [pixels EXCEPT ![index] = "Lit"]
                              /\ UNCHANGED panicked
                         ELSE /\ panicked' = "index out of bounds"
                              /\ UNCHANGED pixels
                    ELSE UNCHANGED <<pixels, panicked>>

\* fn light: sample the pixel of the current cycle.
light ==
    LET screen_index == get_ticks - 1
        middle == sprite_middle
    IN  IF screen_index >= SCREEN_HEIGHT * SCREEN_WIDTH
        THEN UNCHANGED <<pixels, panicked, sampled>>
        ELSE LET row_index == screen_index % SCREEN_WIDTH
                 should_light == \/ row_index = middle
                                 \/ row_index = middle - 1
                                 \/ row_index = middle + 1
                 index == screen_index
             IN  /\ sampled' = Append(sampled, index)
                 /\ IF should_light
                    THEN IF index \in DOMAIN pixels
                         THEN /\ pixels' = [pixels EXCEPT ![index] = "Lit"]
                              /\ UNCHANGED panicked
                         ELSE /\ panicked' = "index out of bounds"
                              /\ UNCHANGED pixels
                    ELSE UNCHANGED <<pixels, panicked>>

\* Variant: the counter starts at 0.
Init_ticks_zero ==
    /\ program \in Programs
    /\ in_flight = None
    /\ ticks = 0
    /\ register = 1
    /\ pixels = [i \in PixelIndex |-> "Dark"]
    /\ sprite_middle = 1
    /\ owner \in {"caller", "screen"}
    /\ pc = "idle"
    /\ panicked = "no"
    /\ refreshes = 0
    /\ entry = [executing |-> TRUE, pixels |-> pixels, sprite_middle |-> 1,
                register |-> 1, ticks |-> 0]
    /\ loaded = program
    /\ history = <<>>
    /\ sampled = <<>>
    /\ fmt_pc = "idle"
    /\ fmt_i = 0
    /\ column = 0
    /\ out = <<>>

\* Variant: a Noop is in flight when the machine starts.
Init_noop_in_flight ==
    /\ program \in Programs
    /\ in_flight = Noop
    /\ ticks = 1
    /\ register = 1
    /\ pixels = [i \in PixelIndex |-> "Dark"]
    /\ sprite_middle = 1
    /\ owner \in {"caller", "screen"}
    /\ pc = "idle"
    /\ panicked = "no"
    /\ refreshes = 0
    /\ entry = [executing |-> TRUE, pixels |-> pixels, sprite_middle |-> 1,
                register |-> 1, ticks |-> 1]
    /\ loaded = program
    /\ history = <<>>
    /\ sampled = <<>>
    /\ fmt_pc = "idle"
    /\ fmt_i = 0
    /\ column = 0
    /\ out = <<>>

\* ------------------------------------------------------------------------
\* Initial state: VirtualMachine::new(program), and for owner = "screen"
\* Screen::new(machine) around the fresh machine.
\* ------------------------------------------------------------------------

Init ==
    /\ program \in Programs
    /\ in_flight = None
    /\ ticks = 1
    /\ register = 1
    /\ pixels = [i \in PixelIndex |-> "Dark"]
    /\ sprite_middle = 1
    /\ owner \in {"caller", "screen"}
    /\ pc = "idle"
    /\ panicked = "no"
    /\ refreshes = 0
    /\ entry = [executing |-> TRUE, pixels |-> pixels, sprite_middle |-> 1,
                register |-> 1, ticks |-> 1]
    /\ loaded = program
    /\ history = <<>>
    /\ sampled = <<>>
    /\ fmt_pc = "idle"
    /\ fmt_i = 0
    /\ column = 0
    /\ out = <<>>

\* ------------------------------------------------------------------------
\* Actions
\* ------------------------------------------------------------------------

\* The caller calls machine.cycle() on the machine it holds.
CallCycle ==
    /\ owner = "caller"
    /\ panicked = "no"
    /\ cycle
    /\ UNCHANGED <<sprite_middle, pixels, owner, pc, refreshes, entry, sampled>>
    /\ UNCHANGED <<loaded, formatter>>

\* The caller calls screen.refresh().
RefreshCall ==
    /\ owner = "screen"
    /\ panicked = "no"
    /\ pc = "idle"
    /\ fmt_pc = "idle"
    /\ refreshes < MaxRefresh
    /\ refreshes' = refreshes + 1
    /\ entry' = [executing |-> is_executing, pixels |-> pixels,
                 sprite_middle |-> sprite_middle, register |-> read_register,
                 ticks |-> get_ticks]
    /\ pc' = "while"
    /\ UNCHANGED <<machine, sprite_middle, pixels, owner, panicked, history, sampled>>
    /\ UNCHANGED <<loaded, formatter>>

\* Variant: the loop stops once the screen is full.
RefreshWhile_until_screen_full ==
    /\ pc = "while"
    /\ panicked = "no"
    /\ pc' = IF is_executing /\ get_ticks - 1 < SCREEN_HEIGHT * SCREEN_WIDTH
             THEN "light"
             ELSE "idle"
    /\ UNCHANGED <<machine, sprite_middle, pixels, owner, panicked, refreshes,
                   entry, history, sampled>>
    /\ UNCHANGED <<loaded, formatter>>

\* Variant: the loop body runs once before the condition is tested.
RefreshWhile_do ==
    /\ pc = "while"
    /\ panicked = "no"
    /\ pc' = "light"
    /\ UNCHANGED <<machine, sprite_middle, pixels, owner, panicked, refreshes,
                   entry, history, sampled>>
    /\ UNCHANGED <<loaded, formatter>>

\* while self.machine.is_executing()
RefreshWhile ==
    /\ pc = "while"
    /\ panicked = "no"
    /\ pc' = IF is_executing THEN "light" ELSE "idle"
    /\ UNCHANGED <<machine, sprite_middle, pixels, owner, panicked, refreshes,
                   entry, history, sampled>>
    /\ UNCHANGED <<loaded, formatter>>

\* self.light()
RefreshLight ==
    /\ pc = "light"
    /\ panicked = "no"
    /\ light
    /\ pc' = "cycle"
    /\ UNCHANGED <<machine, sprite_middle, owner, refreshes, entry, history>>
    /\ UNCHANGED <<loaded, formatter>>

\* self.machine.cycle()
RefreshCycle ==
    /\ pc = "cycle"
    /\ panicked = "no"
    /\ cycle
    /\ pc' = "read"
    /\ UNCHANGED <<sprite_middle, pixels, owner, refreshes, entry, sampled>>
    /\ UNCHANGED <<loaded, formatter>>

\* Variant: the sprite middle is not re-read after the cycle.
RefreshRead_stale ==
    /\ pc = "read"
    /\ panicked = "no"
    /\ sprite_middle' = sprite_middle
    /\ pc' = "while"
    /\ UNCHANGED <<machine, pixels, owner, panicked, refreshes, entry, history, sampled>>
    /\ UNCHANGED <<loaded, formatter>>

\* self.sprite_middle = self.machine.read_register()
RefreshRead ==
    /\ pc = "read"
    /\ panicked = "no"
    /\ sprite_middle' = read_register
    /\ pc' = "while"
    /\ UNCHANGED <<machine, pixels, owner, panicked, refreshes, entry, history, sampled>>
    /\ UNCHANGED <<loaded, formatter>>

\* impl Into<char> for Pixel
into(pixel) == IF pixel = "Lit" THEN "#" ELSE "."

\* The caller formats the screen (Display::fmt): let mut column = 0.
FmtCall ==
    /\ owner = "screen"
    /\ panicked = "no"
    /\ pc = "idle"
    /\ fmt_pc = "idle"
    /\ fmt_pc' = "for"
    /\ fmt_i' = 0
    /\ column' = 0
    /\ out' = <<>>
    /\ UNCHANGED <<machine, sprite_middle, pixels, owner, pc, panicked, refreshes,
                   entry, loaded, history, sampled>>

\* Variant: the row is broken one pixel early.
FmtFor_breaks_early ==
    /\ fmt_pc = "for"
    /\ fmt_i < Cardinality(DOMAIN pixels)
    /\ LET pixel == pixels[fmt_i]
           broken == IF column = 39 THEN Append(out, "\n") ELSE out
       IN  /\ out' = Append(broken, into(pixel))
           /\ column' = (IF column = 39 THEN 0 ELSE column) + 1
    /\ fmt_i' = fmt_i + 1
    /\ UNCHANGED <<machine, sprite_middle, pixels, owner, pc, panicked, refreshes,
                   entry, loaded, history, sampled, fmt_pc>>

\* One iteration of `for pixel in self.pixels`.
FmtFor ==
    /\ fmt_pc = "for"
    /\ fmt_i < Cardinality(DOMAIN pixels)
    /\ LET pixel == pixels[fmt_i]
           broken == IF column = 40 THEN Append(out, "\n") ELSE out
       IN  /\ out' = Append(broken, into(pixel))
           /\ column' = (IF column = 40 THEN 0 ELSE column) + 1
    /\ fmt_i' = fmt_i + 1
    /\ UNCHANGED <<machine, sprite_middle, pixels, owner, pc, panicked, refreshes,
                   entry, loaded, history, sampled, fmt_pc>>

\* The loop is exhausted: writeln!(formatter), the value fmt returns.
FmtEnd ==
    /\ fmt_pc = "for"
    /\ fmt_i = Cardinality(DOMAIN pixels)
    /\ out' = Append(out, "\n")
    /\ fmt_pc' = "done"
    /\ UNCHANGED <<machine, sprite_middle, pixels, owner, pc, panicked, refreshes,
                   entry, loaded, history, sampled, fmt_i, column>>

\* fmt returns; the formatter and its text go to the caller.
FmtReturn ==
    /\ fmt_pc = "done"
    /\ fmt_pc' = "idle"
    /\ fmt_i' = 0
    /\ column' = 0
    /\ out' = <<>>
    /\ UNCHANGED <<machine, sprite_middle, pixels, owner, pc, panicked, refreshes,
                   entry, loaded, history, sampled>>

Next ==
    \/ CallCycle
    \/ RefreshCall
    \/ RefreshWhile
    \/ RefreshLight
    \/ RefreshCycle
    \/ RefreshRead

Spec == Init /\ [][Next]_vars

\* The same operations together with the formatting of the screen.
NextDisplay ==
    \/ Next
    \/ FmtCall
    \/ FmtFor
    \/ FmtEnd
    \/ FmtReturn

SpecDisplay == Init /\ [][NextDisplay]_vars

\* refresh() is straight-line code: once called, each of its steps is taken.
SpecRefreshRuns ==
    /\ Spec
    /\ WF_vars(RefreshWhile)
    /\ WF_vars(RefreshLight)
    /\ WF_vars(RefreshCycle)
    /\ WF_vars(RefreshRead)

\* ------------------------------------------------------------------------
\* Properties
\* ------------------------------------------------------------------------

\* C1: an Addx(d) popped by the cycle() call of cycle k leaves the register
\* as it was when that call returns, and the register read after the call of
\* cycle k+1 returns is the earlier value plus d.
C1_AddxTakesTwoCycles ==
    \A k \in 1..Len(history) :
        LET h == history[k] IN
        (h.branch = "schedule" /\ h.instruction.op = "Addx") =>
            /\ h.after = h.before
            /\ (k = Len(history) => read_register = h.before)
            /\ (k < Len(history) =>
                    /\ history[k + 1].before = h.before
                    /\ history[k + 1].after = h.before + h.instruction.number)
            /\ (k + 1 = Len(history) =>
                    read_register = h.before + h.instruction.number)

\* An Addx with a nonzero operand was popped by one call and the next call
\* has returned.
C1_Witness ==
    /\ Len(history) >= 2
    /\ history[Len(history) - 1].branch = "schedule"
    /\ history[Len(history) - 1].instruction.op = "Addx"
    /\ history[Len(history) - 1].instruction.number /= 0
    /\ history[Len(history)].branch = "execute"
    /\ read_register /= history[Len(history) - 1].before

\* C2: whenever refresh() is about to sample pixel i = get_ticks() - 1, the
\* sprite middle is the machine's register, which is 1 for pixel 0 and
\* otherwise the register as the previous cycle left it.
C2_SpriteIsRegisterBeforeCycle ==
    pc = "light" =>
        /\ sprite_middle = read_register
        /\ Len(history) = get_ticks - 1
        /\ sprite_middle = IF get_ticks - 1 = 0
                           THEN 1
                           ELSE history[get_ticks - 1].after

\* A pixel other than the first is about to be sampled after the register
\* moved away from its initial value.
C2_Witness ==
    /\ pc = "light"
    /\ get_ticks - 1 > 0
    /\ read_register /= 1
    /\ history[Len(history)].branch = "execute"

C4_NoopRetiresInOneCycle ==
    \A k \in 1..Len(history) :
        LET h == history[k] IN
        (h.branch = "schedule" /\ h.instruction = Noop) =>
            /\ h.after = h.before
            /\ (k = Len(history) => in_flight = None /\ read_register = h.before)
            /\ (k < Len(history) =>
                    /\ history[k + 1].branch = "schedule"
                    /\ history[k + 1].pos = h.pos + 1
                    /\ history[k + 1].instruction = loaded[h.pos + 1])

\* A Noop was popped and the next call scheduled an Addx.
C4_Witness ==
    /\ Len(history) >= 2
    /\ history[Len(history) - 1].branch = "schedule"
    /\ history[Len(history) - 1].instruction = Noop
    /\ history[Len(history)].branch = "schedule"
    /\ history[Len(history)].instruction.op = "Addx"

\* C5: is_executing() holds exactly while fewer instructions have completed
\* than the program has (a Noop completes in the call that pops it, an Addx
\* in the call after), and once false it is never true again.
C5_ExecutingUntilLastCompletes ==
    /\ [](is_executing <=>
            Cardinality({k \in 1..Len(history) :
                            \/ history[k].branch = "execute"
                            \/ history[k].instruction = Noop}) < Len(loaded))
    /\ [][~is_executing => ~is_executing']_vars

\* The last instruction, an Addx, has just completed.
C5_Witness ==
    /\ ~is_executing
    /\ Len(history) >= 2
    /\ history[Len(history)].branch = "execute"
    /\ history[1].instruction = Noop

\* C6: cycle() on a machine that is not executing panics; it does not
\* return, so neither the machine nor the count of returned calls changes.
C6_CycleOnFinishedMachinePanics ==
    [][(owner = "caller" /\ ~is_executing) =>
            /\ panicked' = "unwrap on None"
            /\ UNCHANGED <<machine, history>>]_vars

\* The caller cycled a finished machine.
C6_Witness ==
    /\ owner = "caller"
    /\ panicked = "unwrap on None"
    /\ ~is_executing

\* C7: light() only ever samples and writes indices of the grid, never
\* fails on an index, and once get_ticks() - 1 is past the grid it leaves the
\* grid alone; a sample changes no pixel but its own.
C7_WritesStayInGrid ==
    /\ [](/\ DOMAIN pixels = PixelIndex
          /\ panicked /= "index out of bounds"
          /\ \A k \in 1..Len(sampled) : sampled[k] \in PixelIndex)
    /\ [][pc = "light" =>
            IF get_ticks - 1 >= SCREEN_WIDTH * SCREEN_HEIGHT
            THEN pixels' = pixels /\ sampled' = sampled /\ panicked' = "no"
            ELSE \A i \in PixelIndex : i /= get_ticks - 1 => pixels'[i] = pixels[i]]_vars

\* light() ran in a cycle past the last pixel and the loop went on.
C7_Witness ==
    /\ pc = "read"
    /\ get_ticks - 2 >= SCREEN_WIDTH * SCREEN_HEIGHT
    /\ panicked = "no"

\* C8: when refresh() has returned, a sampled pixel i is Lit iff its column
\* i mod width is within one of the register as it was at the start of cycle
\* i+1, and every pixel never sampled is Dark.
C8_LitIffSpriteCoversColumn ==
    (pc = "idle" /\ refreshes >= 1) =>
        \A i \in PixelIndex :
            IF \E k \in 1..Len(sampled) : sampled[k] = i
            THEN LET r == IF i = 0 THEN 1 ELSE history[i].after IN
                 pixels[i] = "Lit" <=> (i % SCREEN_WIDTH) \in (r - 1)..(r + 1)
            ELSE pixels[i] = "Dark"

\* refresh() has returned having lit a pixel under a sprite whose middle is
\* off the row, and having left a sampled and a never sampled pixel dark.
C8_Witness ==
    /\ pc = "idle"
    /\ refreshes >= 1
    /\ \E i \in PixelIndex :
            /\ i > 0
            /\ \E k \in 1..Len(sampled) : sampled[k] = i
            /\ pixels[i] = "Lit"
            /\ history[i].after \notin 0..(SCREEN_WIDTH - 1)
    /\ \E i \in PixelIndex :
            /\ \E k \in 1..Len(sampled) : sampled[k] = i
            /\ pixels[i] = "Dark"
    /\ \E i \in PixelIndex : \A k \in 1..Len(sampled) : sampled[k] /= i

\* C9: a refresh() called on a screen whose machine is no longer executing
\* changes nothing: grid, sprite middle, register and ticks stay as they
\* were at the call, no pixel is sampled and nothing panics.
C9_RefreshAfterCompletionIsNoOp ==
    (refreshes >= 1 /\ ~entry.executing) =>
        /\ pixels = entry.pixels
        /\ sprite_middle = entry.sprite_middle
        /\ read_register = entry.register
        /\ get_ticks = entry.ticks
        /\ panicked = "no"
        /\ pc \in {"while", "idle"}

\* A second refresh() has returned on a screen whose first one ran cycles.
C9_Witness ==
    /\ refreshes >= 2
    /\ pc = "idle"
    /\ ~entry.executing
    /\ Len(history) > 0
    /\ \E i \in PixelIndex : pixels[i] = "Lit"

RECURSIVE SumNumbers(_)
\* The sum of the operands of the history records at the indices in S.
SumNumbers(S) ==
    IF S = {} THEN 0
    ELSE LET k == CHOOSE x \in S : TRUE
         IN  history[k].instruction.number + SumNumbers(S \ {k})

\* C10: the register is 1 plus the operands of the Addx instructions that
\* have completed; an instruction in flight or pending contributes nothing.
C10_RegisterIsSumOfCompleted ==
    read_register = 1 + SumNumbers({k \in 1..Len(history) :
                                        /\ history[k].branch = "execute"
                                        /\ history[k].instruction.op = "Addx"})

\* One Addx has completed and another is in flight.
C10_Witness ==
    /\ in_flight /= None
    /\ in_flight.number /= 0
    /\ \E k \in 1..Len(history) :
            history[k].branch = "execute" /\ history[k].instruction.number /= 0

\* C11: the text fmt has written when it returns is height rows of width
\* characters, '#' for a Lit and '.' for a Dark pixel in grid order, each row
\* followed by a line break; before any refresh() every pixel character is
\* '.'; and formatting never changes the grid.
C11_RenderIsRowsOfPixels ==
    /\ [](fmt_pc = "done" =>
            /\ Len(out) = SCREEN_HEIGHT * (SCREEN_WIDTH + 1)
            /\ \A r \in 0..(SCREEN_HEIGHT - 1) :
                    /\ out[r * (SCREEN_WIDTH + 1) + SCREEN_WIDTH + 1] = "\n"
                    /\ \A c \in 0..(SCREEN_WIDTH - 1) :
                            LET ch == out[r * (SCREEN_WIDTH + 1) + c + 1] IN
                            /\ ch = IF pixels[r * SCREEN_WIDTH + c] = "Lit" THEN "#" ELSE "."
                            /\ (refreshes = 0 => ch = "."))
    /\ [][fmt_pc /= "idle" => pixels' = pixels]_vars

\* fmt has returned the text of a grid with a lit pixel in its second row.
C11_Witness ==
    /\ fmt_pc = "done"
    /\ refreshes >= 1
    /\ \E c \in 0..(SCREEN_WIDTH - 1) :
            pixels[SCREEN_WIDTH + c] = "Lit" /\ out[SCREEN_WIDTH + 1 + c + 1] = "#"

RECURSIVE SumOperands(_)
\* The sum of the operands of the loaded instructions at the indices in S.
SumOperands(S) ==
    IF S = {} THEN 0
    ELSE LET i == CHOOSE x \in S : TRUE
         IN  loaded[i].number + SumOperands(S \ {i})

C15_ProgramConsumedInOrder ==
    /\ [](/\ Len(program) <= Len(loaded)
          /\ program = SubSeq(loaded, Len(loaded) - Len(program) + 1, Len(loaded)))
    /\ [][IF history' /= history
          THEN IF in_flight = None
               THEN /\ program /= <<>>
                    /\ program' = Tail(program)
                    /\ history'[Len(history')].instruction = Head(program)
               ELSE program' = program
          ELSE program' = program]_vars

\* The last two instructions popped differ, the later one has been executed
\* and another is still pending.
C15_Witness ==
    /\ Len(loaded) - Len(program) >= 2
    /\ program /= <<>>
    /\ loaded[Len(loaded) - Len(program) - 1] /= loaded[Len(loaded) - Len(program)]
    /\ \E k \in 1..Len(history) : history[k].branch = "execute"

\* C16: refresh() never panics: every cycle() it calls finds the machine
\* executing, for every program including the empty one.
C16_RefreshNeverExhaustsProgram ==
    owner = "screen" =>
        /\ panicked = "no"
        /\ (pc \in {"light", "cycle"} => is_executing)
        /\ (pc = "cycle" /\ in_flight = None => program /= <<>>)

\* refresh() has just made the cycle() call that completed the program.
C16_Witness ==
    /\ owner = "screen"
    /\ pc = "read"
    /\ ~is_executing
    /\ panicked = "no"
    /\ history[Len(history)].branch = "schedule"

C18_GridIsMonotone ==
    /\ [](\A k \in 1..Len(sampled) : sampled[k] = k - 1)
    /\ [][/\ \A i \in PixelIndex : pixels[i] = "Lit" => pixels'[i] = "Lit"
          /\ pixels' /= pixels =>
                /\ pc = "light"
                /\ \A i \in PixelIndex : i /= get_ticks - 1 => pixels'[i] = pixels[i]
          /\ sampled' /= sampled =>
                /\ pc = "light"
                /\ sampled' = Append(sampled, get_ticks - 1)]_vars

\* A pixel of the second row has been lit while pixels of the first row
\* were lit before.
C18_Witness ==
    /\ Len(sampled) > SCREEN_WIDTH + 1
    /\ pixels[0] = "Lit"
    /\ \E i \in SCREEN_WIDTH..(2 * SCREEN_WIDTH - 1) : pixels[i] = "Lit"

====
